---- MODULE Spec2Model ----
(***************************************************************************)
(* Model of the fastrnns model-definition factory (rnns/fastrnns/factory.py)*)
(* and of the TorchDynamo backend glue                                      *)
(* (torchbenchmark/util/backends/torchdynamo.py).                           *)
(*                                                                         *)
(* A tensor is a record: its shape, its data as one value per leading-axis *)
(* block (one block for rank <= 2, shape[1] blocks for rank 3), the set of *)
(* leaf parameters it depends on (the autograd graph), its device and an   *)
(* ok flag that is FALSE once an operation on it has raised.               *)
(***************************************************************************)
EXTENDS Integers, Sequences, FiniteSets, TLC

\* ---------------------------------------------------------------- bounds
MaxSeq == 2
MaxLayers == 2
MaxSize == 2
MaxBatch == 2
MaxSeed == 1
MaxDraws == 1
\* period of the modelled generator state and modulus of tensor values
RngMod == 61
ValMod == 31

\* ------------------------------------------------------------- constants
\* nn.LSTM keeps four gates per hidden unit: weights have 4*hiddenSize rows
GateCount == 4
\* dynamic_rnn of lstm_factory_multilayer: params_stride = 4
params_stride == 4

Devices == {"cpu", "cuda"}

\* seed=None is NoSeed; a given seed carries its value
NoSeed == [some |-> FALSE, v |-> 0]
SomeSeed(n) == [some |-> TRUE, v |-> n]
\* the seeds a caller passes: none, zero and a positive one
Seeds == {NoSeed, SomeSeed(0), SomeSeed(MaxSeed)}

\* ---------------------------------------------------------------- tensors
RECURSIVE Numel(_)
Numel(shape) == IF shape = <<>> THEN 1 ELSE Head(shape) * Numel(Tail(shape))

Blocks(shape) == IF Len(shape) >= 3 THEN shape[1] ELSE 1
BlockShape(shape) == IF Len(shape) >= 3 THEN Tail(shape) ELSE shape

MkTensor(shape, data, deps, dev) ==
    [shape |-> shape, data |-> data, deps |-> deps, dev |-> dev, ok |-> TRUE]

\* the result of an operation that raised
Raised == [shape |-> <<>>, data |-> <<>>, deps |-> {}, dev |-> "cpu", ok |-> FALSE]

\* python indexing is 0-based
At0(seq, i) == seq[i + 1]

\* ------------------------------------------------------------------- RNG
\* torch.manual_seed seeds the generator of every device
manual_seed(seed) == [cpu |-> seed % RngMod, cuda |-> seed % RngMod]

\* value of a block of n elements drawn when the generator state is s
BlockValue(s, n) == IF n = 0 THEN 0 ELSE (7 * s + 3) % ValMod

\* torch.randn(*shape, device=dev): the tensor drawn from the generator of dev
randn(rng, shape, dev) ==
    MkTensor(shape,
             [i \in 1..Blocks(shape) |->
                 BlockValue((rng[dev] + (i - 1) * Numel(BlockShape(shape))) % RngMod,
                            Numel(BlockShape(shape)))],
             {}, dev)

\* the generators after n elements were drawn on dev
drawn(rng, n, dev) == [rng EXCEPT ![dev] = (rng[dev] + n) % RngMod]

\* torch.randn_like(t)
randn_like(rng, t) == randn(rng, t.shape, t.dev)

\* tensor.unbind(0) of a rank-3 tensor: the list of its blocks
unbind(t) == [i \in 1..Blocks(t.shape) |->
                 [t EXCEPT !.shape = Tail(t.shape), !.data = <<t.data[i]>>]]

\* tensor[i] on a rank-3 tensor (0-based)
index(t, i) == [t EXCEPT !.shape = Tail(t.shape), !.data = <<At0(t.data, i)>>]

\* tensor.unsqueeze(0) on a rank-2 tensor
unsqueeze(t) == [t EXCEPT !.shape = <<1>> \o t.shape]

\* torch.stack(list) of rank-2 tensors; raises on an empty list
stack(lst) ==
    IF Len(lst) = 0 \/ \E i \in 1..Len(lst) : ~lst[i].ok THEN Raised
    ELSE MkTensor(<<Len(lst)>> \o lst[1].shape,
                  [i \in 1..Len(lst) |-> lst[i].data[1]],
                  UNION {lst[i].deps : i \in 1..Len(lst)},
                  lst[1].dev)

\* torch.mm(a, w.t()) for a of shape (B, K) and w of shape (N, K); raises
\* when the inner sizes differ
mm_t(a, w) ==
    IF ~a.ok \/ ~w.ok \/ Len(a.shape) # 2 \/ Len(w.shape) # 2 THEN Raised
    ELSE IF a.shape[2] # w.shape[2] THEN Raised
    ELSE MkTensor(<<a.shape[1], w.shape[1]>>,
                  <<(a.data[1] * w.data[1]) % ValMod>>,
                  a.deps \cup w.deps, a.dev)

\* torch.matmul(input, w.t()) for a rank-3 input: mm_t on every block
matmul_t(input, w) ==
    IF ~input.ok \/ ~w.ok \/ Len(input.shape) # 3 THEN Raised
    ELSE IF input.shape[3] # w.shape[2] THEN Raised
    ELSE MkTensor(<<input.shape[1], input.shape[2], w.shape[1]>>,
                  [i \in 1..Blocks(input.shape) |-> (input.data[i] * w.data[1]) % ValMod],
                  input.deps \cup w.deps, input.dev)

\* ------------------------------------------------------------------ cells
\* stand-ins for the elementwise sigmoid and tanh of the numerics library
Sigmoid(v) == (v + 1) % ValMod
Tanh(v) == (2 * v + 1) % ValMod

\* gates = igates + mm(hx, w_hh.t()) + b_ih + b_hh, then the memory-cell
\* update: cy = f*cx + i*g, hy = o*tanh(cy)
CellUpdate(igates, hx, cx, w_hh, b_ih, b_hh) ==
    LET hg == mm_t(hx, w_hh)
        bad == \/ ~igates.ok \/ ~hg.ok \/ ~cx.ok \/ ~b_ih.ok \/ ~b_hh.ok
               \/ igates.shape # hg.shape
               \/ b_ih.shape # <<hg.shape[2]>> \/ b_hh.shape # <<hg.shape[2]>>
               \/ cx.shape # hx.shape
               \/ hg.shape[2] # GateCount * hx.shape[2]
        g  == (igates.data[1] + hg.data[1] + b_ih.data[1] + b_hh.data[1]) % ValMod
        c  == (Sigmoid(g) * cx.data[1] + Sigmoid(g) * Tanh(g)) % ValMod
        h  == (Sigmoid(g) * Tanh(c)) % ValMod
        deps == igates.deps \cup hg.deps \cup cx.deps \cup b_ih.deps \cup b_hh.deps
    IN  IF bad THEN [hy |-> Raised, cy |-> Raised]
        ELSE [hy |-> MkTensor(hx.shape, <<h>>, deps, hx.dev),
              cy |-> MkTensor(hx.shape, <<c>>, deps, hx.dev)]

\* cells.lstm_cell(input, hidden, w_ih, w_hh, b_ih, b_hh)
lstm_cell(input, hidden, w_ih, w_hh, b_ih, b_hh) ==
    CellUpdate(mm_t(input, w_ih), hidden[1], hidden[2], w_hh, b_ih, b_hh)

\* cells.premul_lstm_cell(igates, hidden, w_hh, b_ih, b_hh)
premul_lstm_cell(igates, hidden, w_hh, b_ih, b_hh) ==
    CellUpdate(igates, hidden[1], hidden[2], w_hh, b_ih, b_hh)

\* cells.flat_lstm_cell(input, hx, cx, w_ih, w_hh, b_ih, b_hh)
flat_lstm_cell(input, hx, cx, w_ih, w_hh, b_ih, b_hh) ==
    CellUpdate(mm_t(input, w_ih), hx, cx, w_hh, b_ih, b_hh)

\* ------------------------------------------------------------ lstm_inputs
\* list[list[T]] -> list[T]
RECURSIVE flatten_list(_)
flatten_list(lst) == IF lst = <<>> THEN <<>> ELSE Head(lst) \o flatten_list(Tail(lst))

\* torch.nn.LSTM(inputSize, hiddenSize, numLayers), one layer: its weights
\* wih, whh, bih, bhh, initialised in that order from the CPU generator; each
\* is a leaf named by its position in the flattened list
LSTMLayer(rng, inputSize, hiddenSize, layer) ==
    LET rows == GateCount * hiddenSize
        cols == IF layer = 0 THEN inputSize ELSE hiddenSize
        r1 == drawn(rng, rows * cols, "cpu")
        r2 == drawn(rng, rows * cols + rows * hiddenSize, "cpu")
        r3 == drawn(rng, rows * cols + rows * hiddenSize + rows, "cpu")
        leaf(t, col) == [t EXCEPT !.deps = {layer * GateCount + col}]
    IN  <<leaf(randn(rng, <<rows, cols>>, "cpu"), 1),
          leaf(randn(r1, <<rows, hiddenSize>>, "cpu"), 2),
          leaf(randn(r2, <<rows>>, "cpu"), 3),
          leaf(randn(r3, <<rows>>, "cpu"), 4)>>

\* the generators after that layer was initialised
LSTMLayerDrawn(rng, inputSize, hiddenSize, layer) ==
    LET rows == GateCount * hiddenSize
        cols == IF layer = 0 THEN inputSize ELSE hiddenSize
    IN  drawn(rng, rows * cols + rows * hiddenSize + rows + rows, "cpu")

\* the weights of layers layer..numLayers-1 (lstm.all_weights)
RECURSIVE LSTM(_, _, _, _, _)
LSTM(rng, inputSize, hiddenSize, numLayers, layer) ==
    IF layer >= numLayers THEN <<>>
    ELSE <<LSTMLayer(rng, inputSize, hiddenSize, layer)>>
         \o LSTM(LSTMLayerDrawn(rng, inputSize, hiddenSize, layer),
                 inputSize, hiddenSize, numLayers, layer + 1)

\* the generators after layers layer..numLayers-1 were initialised
RECURSIVE LSTMDrawn(_, _, _, _, _)
LSTMDrawn(rng, inputSize, hiddenSize, numLayers, layer) ==
    IF layer >= numLayers THEN rng
    ELSE LSTMDrawn(LSTMLayerDrawn(rng, inputSize, hiddenSize, layer),
                   inputSize, hiddenSize, numLayers, layer + 1)

\* lstm.cuda()
cuda(all_weights) ==
    [l \in 1..Len(all_weights) |->
        [c \in 1..Len(all_weights[l]) |-> [all_weights[l][c] EXCEPT !.dev = "cuda"]]]

\* what lstm_inputs returns: x, (hx, cx), lstm.all_weights, the module (its
\* weights) when asked for, and the generators afterwards
lstm_inputs_result(x, hx, cx, all_weights, rng, device, return_module) ==
    [x |-> x, hidden |-> <<hx, cx>>,
     all_weights |-> IF device = "cuda" THEN cuda(all_weights) ELSE all_weights,
     module |-> IF ~return_module THEN <<>>
                ELSE IF device = "cuda" THEN cuda(all_weights) ELSE all_weights,
     rng |-> rng]

\* lstm_inputs with the seed tested for truth ("if seed:") instead of for
\* None: a seed of 0 leaves the generators as they are
lstm_inputs_truthy_seed(rng, cfg, return_module) ==
    LET r0 == IF cfg.seed.some /\ cfg.seed.v # 0 THEN manual_seed(cfg.seed.v) ELSE rng
        xs == <<cfg.seqLength, cfg.miniBatch, cfg.inputSize>>
        hs == <<cfg.numLayers, cfg.miniBatch, cfg.hiddenSize>>
        r1 == drawn(r0, Numel(xs), cfg.device)
        r2 == drawn(r1, Numel(hs), cfg.device)
        r3 == drawn(r2, Numel(hs), cfg.device)
    IN  lstm_inputs_result(randn(r0, xs, cfg.device), randn(r1, hs, cfg.device),
                           randn(r2, hs, cfg.device),
                           LSTM(r3, cfg.inputSize, cfg.hiddenSize, cfg.numLayers, 0),
                           LSTMDrawn(r3, cfg.inputSize, cfg.hiddenSize, cfg.numLayers, 0),
                           cfg.device, return_module)

\* lstm_inputs(seqLength, numLayers, inputSize, hiddenSize, miniBatch,
\*             return_module, device, seed)
lstm_inputs(rng, cfg, return_module) ==
    LET r0 == IF cfg.seed # NoSeed THEN manual_seed(cfg.seed.v) ELSE rng
        xs == <<cfg.seqLength, cfg.miniBatch, cfg.inputSize>>
        hs == <<cfg.numLayers, cfg.miniBatch, cfg.hiddenSize>>
        r1 == drawn(r0, Numel(xs), cfg.device)
        r2 == drawn(r1, Numel(hs), cfg.device)
        r3 == drawn(r2, Numel(hs), cfg.device)
    IN  lstm_inputs_result(randn(r0, xs, cfg.device), randn(r1, hs, cfg.device),
                           randn(r2, hs, cfg.device),
                           LSTM(r3, cfg.inputSize, cfg.hiddenSize, cfg.numLayers, 0),
                           LSTMDrawn(r3, cfg.inputSize, cfg.hiddenSize, cfg.numLayers, 0),
                           cfg.device, return_module)

\* ------------------------------------------------------- values in lists
\* an element of an inputs list or of a forward output: a tensor, a
\* (hidden, cell) pair or a list of tensors
TensorArg(t) == [kind |-> "tensor", items |-> <<t>>]
PairArg(p) == [kind |-> "pair", items |-> p]
ListArg(l) == [kind |-> "list", items |-> l]
TensorArgs(lst) == [i \in 1..Len(lst) |-> TensorArg(lst[i])]

\* ModelDef = namedtuple('ModelDef', [inputs, params, forward,
\*                                    backward_setup, backward])
ModelDef(inputs, params, forward, backward_setup, backward) ==
    [inputs |-> inputs, params |-> params, forward |-> forward,
     backward_setup |-> backward_setup, backward |-> backward]

\* a forward callable: the closure or module it is and, for the nn.LSTM
\* module, the weights it owns. torch.jit.script(dynamic_rnn) computes what
\* dynamic_rnn computes, so the script flag is not part of the callable.
Closure(fn) == [fn |-> fn, module |-> <<>>]
Module(weights) == [fn |-> "module", module |-> weights]

\* --------------------------------------------------------------- creators
\* the ModelDef every LSTM creator returns around its inputs and forward
\* (backward_setup=lstm_backward_setup, backward=simple_backward), with the
\* generators after the call
Created(inputs, params, forward, rng) ==
    [def |-> ModelDef(inputs, params, forward, "lstm_backward_setup", "simple_backward"),
     rng |-> rng]

\* pytorch_lstm_creator: the ModelDef built from what lstm_inputs returned
pytorch_lstm_ModelDef(li) ==
    Created(<<TensorArg(li.x), PairArg(li.hidden)>>,
            flatten_list(li.module),
            Module(li.module),
            li.rng)
pytorch_lstm_creator(rng, cfg) == pytorch_lstm_ModelDef(lstm_inputs(rng, cfg, TRUE))

\* lstm_creator: inputs = [input, hidden] + params[0]
lstm_ModelDef(li) ==
    Created(<<TensorArg(li.x), PairArg(li.hidden)>> \o TensorArgs(At0(li.all_weights, 0)),
            flatten_list(li.all_weights),
            Closure("lstm"),
            li.rng)
lstm_creator(rng, cfg) == lstm_ModelDef(lstm_inputs(rng, cfg, FALSE))

\* lstm_premul_creator: inputs = [input, hidden] + params[0]
lstm_premul_ModelDef(li) ==
    Created(<<TensorArg(li.x), PairArg(li.hidden)>> \o TensorArgs(At0(li.all_weights, 0)),
            flatten_list(li.all_weights),
            Closure("premul"),
            li.rng)
lstm_premul_creator(rng, cfg) == lstm_premul_ModelDef(lstm_inputs(rng, cfg, FALSE))

\* lstm_simple_creator passing hidden as the (hx, cx) pair, as lstm_creator does
lstm_simple_ModelDef_pair(li) ==
    Created(<<TensorArg(li.x), PairArg(li.hidden)>> \o TensorArgs(At0(li.all_weights, 0)),
            flatten_list(li.all_weights),
            Closure("simple"),
            li.rng)

\* lstm_simple_creator: inputs = [input] + [h[0] for h in hidden] + params[0]
lstm_simple_ModelDef(li) ==
    Created(<<TensorArg(li.x)>>
                \o [i \in 1..Len(li.hidden) |-> TensorArg(index(li.hidden[i], 0))]
                \o TensorArgs(At0(li.all_weights, 0)),
            flatten_list(li.all_weights),
            Closure("simple"),
            li.rng)
lstm_simple_creator(rng, cfg) == lstm_simple_ModelDef(lstm_inputs(rng, cfg, FALSE))

\* lstm_multilayer_creator: inputs = [input, hidden, flatten_list(params)]
lstm_multilayer_ModelDef(li) ==
    Created(<<TensorArg(li.x), PairArg(li.hidden), ListArg(flatten_list(li.all_weights))>>,
            flatten_list(li.all_weights),
            Closure("multilayer"),
            li.rng)
lstm_multilayer_creator(rng, cfg) == lstm_multilayer_ModelDef(lstm_inputs(rng, cfg, FALSE))

Creators == {"pytorch_lstm", "lstm", "lstm_premul", "lstm_simple", "lstm_multilayer"}

\* the creator of that name called with **cfg
Creator(name, rng, cfg) ==
    CASE name = "pytorch_lstm"    -> pytorch_lstm_creator(rng, cfg)
      [] name = "lstm"            -> lstm_creator(rng, cfg)
      [] name = "lstm_premul"     -> lstm_premul_creator(rng, cfg)
      [] name = "lstm_simple"     -> lstm_simple_creator(rng, cfg)
      [] name = "lstm_multilayer" -> lstm_multilayer_creator(rng, cfg)

\* --------------------------------------------------------- forward paths
\* params[i] of a python list (0-based); IndexError past the end
ParamAt(params, i) == IF i >= 0 /\ i < Len(params) THEN At0(params, i) ELSE Raised

\* lstm_factory.dynamic_rnn, the loop: for seq_idx in range(len(inputs))
RECURSIVE lstm_steps(_, _, _, _, _, _)
lstm_steps(inputs, seq_idx, hy, cy, outputs, w) ==
    IF seq_idx >= Len(inputs) THEN [hy |-> hy, cy |-> cy, outputs |-> outputs]
    ELSE LET r == lstm_cell(At0(inputs, seq_idx), <<hy, cy>>, w[1], w[2], w[3], w[4])
         IN  lstm_steps(inputs, seq_idx + 1, r.hy, r.cy, Append(outputs, r.hy), w)

\* dynamic_rnn returning (hy, cy) without unsqueeze(0)
lstm_factory_no_unsqueeze(input, hidden, wih, whh, bih, bhh) ==
    LET hx == hidden[1]
        cx == hidden[2]
        inputs == unbind(input)
        r  == lstm_steps(inputs, 0, index(hx, 0), index(cx, 0), <<>>,
                         <<wih, whh, bih, bhh>>)
    IN  <<TensorArg(stack(r.outputs)), PairArg(<<r.hy, r.cy>>)>>

\* lstm_factory(cell, script).dynamic_rnn(input, hidden, wih, whh, bih, bhh)
lstm_factory(input, hidden, wih, whh, bih, bhh) ==
    LET hx == hidden[1]
        cx == hidden[2]
        inputs == unbind(input)
        r  == lstm_steps(inputs, 0, index(hx, 0), index(cx, 0), <<>>,
                         <<wih, whh, bih, bhh>>)
    IN  <<TensorArg(stack(r.outputs)),
          PairArg(<<unsqueeze(r.hy), unsqueeze(r.cy)>>)>>

\* lstm_factory_premul.dynamic_rnn, the loop
RECURSIVE premul_steps(_, _, _, _, _, _)
premul_steps(inputs, seq_idx, hy, cy, outputs, w) ==
    IF seq_idx >= Len(inputs) THEN [hy |-> hy, cy |-> cy, outputs |-> outputs]
    ELSE LET r == premul_lstm_cell(At0(inputs, seq_idx), <<hy, cy>>, w[1], w[2], w[3])
         IN  premul_steps(inputs, seq_idx + 1, r.hy, r.cy, Append(outputs, r.hy), w)

\* lstm_factory_premul(premul_cell, script).dynamic_rnn(input, hidden, wih,
\*                                                       whh, bih, bhh)
lstm_factory_premul(input, hidden, wih, whh, bih, bhh) ==
    LET hx == hidden[1]
        cx == hidden[2]
        pre == matmul_t(input, wih)
        inputs == IF pre.ok THEN unbind(pre) ELSE <<>>
        r  == premul_steps(inputs, 0, index(hx, 0), index(cx, 0), <<>>,
                           <<whh, bih, bhh>>)
    IN  IF ~pre.ok THEN <<TensorArg(Raised), PairArg(<<Raised, Raised>>)>>
        ELSE <<TensorArg(stack(r.outputs)),
               PairArg(<<unsqueeze(r.hy), unsqueeze(r.cy)>>)>>

\* the loop reading inputs[0] at every step instead of inputs[seq_idx]
RECURSIVE simple_steps_first_input(_, _, _, _, _)
simple_steps_first_input(inputs, seq_idx, hy, cy, w) ==
    IF seq_idx >= Len(inputs) THEN [hy |-> hy, cy |-> cy]
    ELSE LET r == flat_lstm_cell(At0(inputs, 0), hy, cy, w[1], w[2], w[3], w[4])
         IN  simple_steps_first_input(inputs, seq_idx + 1, r.hy, r.cy, w)

\* lstm_factory_simple.dynamic_rnn, the loop: no output list
RECURSIVE simple_steps(_, _, _, _, _)
simple_steps(inputs, seq_idx, hy, cy, w) ==
    IF seq_idx >= Len(inputs) THEN [hy |-> hy, cy |-> cy]
    ELSE LET r == flat_lstm_cell(At0(inputs, seq_idx), hy, cy, w[1], w[2], w[3], w[4])
         IN  simple_steps(inputs, seq_idx + 1, r.hy, r.cy, w)

\* lstm_factory_simple(cell, script).dynamic_rnn(input, hx, cx, wih, whh,
\*                                                bih, bhh)
lstm_factory_simple(input, hx, cx, wih, whh, bih, bhh) ==
    LET r == simple_steps(unbind(input), 0, hx, cx, <<wih, whh, bih, bhh>>)
    IN  <<TensorArg(r.hy), TensorArg(r.cy)>>

\* lstm_factory_multilayer.dynamic_rnn, the inner loop over seq_idx
RECURSIVE multilayer_steps(_, _, _, _, _, _)
multilayer_steps(inputs, seq_idx, hy, cy, outputs, w) ==
    IF seq_idx >= Len(inputs) THEN [hy |-> hy, cy |-> cy, outputs |-> outputs]
    ELSE LET r == lstm_cell(At0(inputs, seq_idx), <<hy, cy>>, w[1], w[2], w[3], w[4])
         IN  multilayer_steps(inputs, seq_idx + 1, r.hy, r.cy, Append(outputs, r.hy), w)

\* the layer pass starting every layer from hx[0], cx[0]
multilayer_layer_first_state(inputs, hx, cx, params, layer) ==
    LET hy == index(hx, 0)
        cy == index(cx, 0)
        base_idx == layer * params_stride
        wih == ParamAt(params, base_idx)
        whh == ParamAt(params, base_idx + 1)
        bih == ParamAt(params, base_idx + 2)
        bhh == ParamAt(params, base_idx + 3)
    IN  multilayer_steps(inputs, 0, hy, cy, <<>>, <<wih, whh, bih, bhh>>)

\* lstm_factory_multilayer.dynamic_rnn, the body of one pass of
\* for layer in range(hx.size(0)): the layer's start state, its four
\* parameters and its run over the time steps
multilayer_layer(inputs, hx, cx, params, layer) ==
    LET hy == index(hx, layer)
        cy == index(cx, layer)
        base_idx == layer * params_stride
        wih == ParamAt(params, base_idx)
        whh == ParamAt(params, base_idx + 1)
        bih == ParamAt(params, base_idx + 2)
        bhh == ParamAt(params, base_idx + 3)
    IN  multilayer_steps(inputs, 0, hy, cy, <<>>, <<wih, whh, bih, bhh>>)

\* lstm_factory_multilayer.dynamic_rnn, the outer loop; inputs, hy, cy are
\* the loop-carried variables (inputs, outputs = outputs, [])
RECURSIVE multilayer_layers(_, _, _, _, _, _, _)
multilayer_layers(inputs, hx, cx, params, layer, hy, cy) ==
    IF layer >= hx.shape[1] THEN [inputs |-> inputs, hy |-> hy, cy |-> cy]
    ELSE LET r == multilayer_layer(inputs, hx, cx, params, layer)
         IN  multilayer_layers(r.outputs, hx, cx, params, layer + 1, r.hy, r.cy)

\* lstm_factory_multilayer(cell, script).dynamic_rnn(input, hidden, params)
lstm_factory_multilayer(input, hidden, params) ==
    LET hx == hidden[1]
        cx == hidden[2]
        r  == multilayer_layers(unbind(input), hx, cx, params, 0, hx, cx)
    IN  <<TensorArg(stack(r.inputs)),
          PairArg(<<unsqueeze(r.hy), unsqueeze(r.cy)>>)>>

\* torch.nn.LSTM.forward(input, hx): every layer in turn; the output of the
\* last layer and the final state of every layer; raises on an empty sequence
RECURSIVE module_layers(_, _, _, _, _, _)
module_layers(weights, layer, inputs, hidden, hn, cn) ==
    IF layer >= Len(weights) THEN [outputs |-> inputs, hn |-> hn, cn |-> cn]
    ELSE LET r == lstm_steps(inputs, 0, index(hidden[1], layer),
                             index(hidden[2], layer), <<>>, At0(weights, layer))
         IN  module_layers(weights, layer + 1, r.outputs, hidden,
                           Append(hn, r.hy), Append(cn, r.cy))

module_forward(weights, input, hidden) ==
    LET r == module_layers(weights, 0, unbind(input), hidden, <<>>, <<>>)
    IN  <<TensorArg(stack(r.outputs)), PairArg(<<stack(r.hn), stack(r.cn)>>)>>

\* the positional parameters of each forward callable
Signature(fn) ==
    CASE fn = "lstm"       -> <<"tensor", "pair", "tensor", "tensor", "tensor", "tensor">>
      [] fn = "premul"     -> <<"tensor", "pair", "tensor", "tensor", "tensor", "tensor">>
      [] fn = "simple"     -> <<"tensor", "tensor", "tensor", "tensor", "tensor",
                                "tensor", "tensor">>
      [] fn = "multilayer" -> <<"tensor", "pair", "list">>
      [] fn = "module"     -> <<"tensor", "pair">>

Kinds(args) == [i \in 1..Len(args) |-> args[i].kind]

ArgsOk(out) == \A i \in 1..Len(out) : \A j \in 1..Len(out[i].items) : out[i].items[j].ok

\* forward(*inputs): TypeError when the arguments do not fit the callable,
\* RuntimeError when an operation inside raises
Call(forward, inputs) ==
    IF Kinds(inputs) # Signature(forward.fn)
    THEN [raised |-> "TypeError", out |-> <<>>]
    ELSE LET a(i) == inputs[i].items[1]
             p(i) == inputs[i].items
             out == CASE forward.fn = "lstm" ->
                            lstm_factory(a(1), p(2), a(3), a(4), a(5), a(6))
                      [] forward.fn = "premul" ->
                            lstm_factory_premul(a(1), p(2), a(3), a(4), a(5), a(6))
                      [] forward.fn = "simple" ->
                            lstm_factory_simple(a(1), a(2), a(3), a(4), a(5), a(6), a(7))
                      [] forward.fn = "multilayer" ->
                            lstm_factory_multilayer(a(1), p(2), p(3))
                      [] forward.fn = "module" ->
                            module_forward(forward.module, a(1), p(2))
         IN  IF ArgsOk(out) THEN [raised |-> "none", out |-> out]
             ELSE [raised |-> "RuntimeError", out |-> <<>>]

\* ---------------------------------------------------------------- backward
\* simple_backward_setup(output, seed): the (output, grad_output) pair
simple_backward_setup(rng, output, seed) ==
    IF output.kind # "tensor"
    THEN [raised |-> "AssertionError", value |-> Raised, grad |-> Raised, rng |-> rng]
    ELSE LET r0 == IF seed.some /\ seed.v # 0 THEN manual_seed(seed.v) ELSE rng
         IN  [raised |-> "none", value |-> output.items[1],
              grad |-> randn_like(r0, output.items[1]),
              rng |-> drawn(r0, Numel(output.items[1].shape), output.items[1].dev)]

\* lstm_backward_setup unpacking "_, hx = lstm_outputs"
lstm_backward_setup_second(rng, lstm_outputs, seed) ==
    IF Len(lstm_outputs) # 2
    THEN [raised |-> "ValueError", value |-> Raised, grad |-> Raised, rng |-> rng]
    ELSE simple_backward_setup(rng, lstm_outputs[2], seed)

\* lstm_backward_setup(lstm_outputs, seed): hx, _ = lstm_outputs
lstm_backward_setup(rng, lstm_outputs, seed) ==
    IF Len(lstm_outputs) # 2
    THEN [raised |-> "ValueError", value |-> Raised, grad |-> Raised, rng |-> rng]
    ELSE simple_backward_setup(rng, lstm_outputs[1], seed)

\* no parameter has a gradient yet
NoGrads(params) == [i \in 1..Len(params) |-> <<>>]

\* simple_backward(output, grad_output): output.backward(grad_output) fills
\* the gradient of every leaf parameter the output was computed from
simple_backward(params, grads, output, grad_output) ==
    IF output.deps = {} \/ grad_output.shape # output.shape
    THEN [raised |-> "RuntimeError", grads |-> grads]
    ELSE [raised |-> "none",
          grads |-> [i \in 1..Len(params) |->
                        IF params[i].deps \subseteq output.deps
                        THEN params[i].shape ELSE grads[i]]]

\* ------------------------------------------------- the benchmarking driver
VARIABLES
    pc,          \* where the driver is: start, created, recreated, forwarded,
                 \* setup, setup_again, done, raised
    rng,         \* the global generators, one per device
    draws,       \* random draws made by other code so far
    name,        \* the creator called
    cfg,         \* its keyword arguments
    bundle,      \* the ModelDef it returned
    again,       \* inputs and params of a second call with the same arguments
    outputs,     \* what forward(*inputs) returned
    bseed,       \* the seed passed to backward_setup
    value,       \* backward_setup's first result
    grad,        \* backward_setup's second result
    grad_again,  \* grad_output of a second backward_setup call, same arguments
    grads,       \* .grad of every tensor of bundle.params (<<>> is None)
    raised       \* the exception that ended the run, or "none"

fvars == <<pc, rng, draws, name, cfg, bundle, again, outputs, bseed, value,
           grad, grad_again, grads, raised>>

\* the state of the TorchDynamo glue (backends/torchdynamo.py)
VARIABLES
    dpc,        \* idle, ready (a model is built), done, raised
    model,      \* the BenchmarkModel handed to apply_torchdynamo_args
    args,       \* the parsed arguments
    precision,  \* the precision argument
    inductor,   \* torch._inductor.config, global
    calls,      \* the calls made into torch._dynamo, warnings and the model
    draised     \* the exception apply_torchdynamo_args ended with, or "none"

dvars == <<dpc, model, args, precision, inductor, calls, draised>>
vars == <<fvars, dvars>>

\* the keyword arguments a creator is called with: every sequence length and
\* layer count up to the bound, the smallest and the largest feature sizes,
\* an empty and a full batch
Configs ==
    [seqLength : 0..MaxSeq, numLayers : 1..MaxLayers, inputSize : {1, MaxSize},
     hiddenSize : {1, MaxSize}, miniBatch : {0, MaxBatch}, device : Devices,
     seed : Seeds]

NoDef == ModelDef(<<>>, <<>>, Closure("none"), "none", "none")
NoCfg == [seqLength |-> 0, numLayers |-> 0, inputSize |-> 0, hiddenSize |-> 0,
          miniBatch |-> 0, device |-> "cpu", seed |-> NoSeed]
NotAgain == [made |-> FALSE, inputs |-> <<>>, params |-> <<>>]

FInit ==
    /\ pc = "start"
    /\ rng = [cpu |-> 0, cuda |-> 0]
    /\ draws = 0
    /\ name = "none"
    /\ cfg = NoCfg
    /\ bundle = NoDef
    /\ again = NotAgain
    /\ outputs = <<>>
    /\ bseed = NoSeed
    /\ value = Raised
    /\ grad = Raised
    /\ grad_again = Raised
    /\ grads = <<>>
    /\ raised = "none"

\* other code draws a random number on some device
Draw ==
    /\ pc \in {"start", "created"}
    /\ draws < MaxDraws
    /\ \E dev \in Devices : rng' = drawn(rng, 1, dev)
    /\ draws' = draws + 1
    /\ UNCHANGED <<pc, name, cfg, bundle, again, outputs, bseed, value, grad,
                   grad_again, grads, raised>>
    /\ UNCHANGED dvars

\* the driver calls a creator
Create ==
    /\ pc = "start"
    /\ \E n \in Creators, c \in Configs :
         \E r \in {Creator(n, rng, c)} :
             /\ name' = n
             /\ cfg' = c
             /\ bundle' = r.def
             /\ rng' = r.rng
             /\ grads' = NoGrads(r.def.params)
    /\ pc' = "created"
    /\ UNCHANGED <<draws, again, outputs, bseed, value, grad, grad_again, raised>>
    /\ UNCHANGED dvars

\* the same creator called a second time with the same arguments
Recreate ==
    /\ pc = "created"
    /\ \E r \in {Creator(name, rng, cfg)} :
           /\ again' = [made |-> TRUE, inputs |-> r.def.inputs, params |-> r.def.params]
           /\ rng' = r.rng
    /\ pc' = "recreated"
    /\ UNCHANGED <<draws, name, cfg, bundle, outputs, bseed, value, grad,
                   grad_again, grads, raised>>
    /\ UNCHANGED dvars

\* forward(*inputs)
Forward ==
    /\ pc = "created"
    /\ \E r \in {Call(bundle.forward, bundle.inputs)} :
           /\ outputs' = r.out
           /\ raised' = r.raised
           /\ pc' = IF r.raised = "none" THEN "forwarded" ELSE "raised"
    /\ UNCHANGED <<rng, draws, name, cfg, bundle, again, bseed, value, grad,
                   grad_again, grads>>
    /\ UNCHANGED dvars

\* backward_setup(forward_output, seed)
BackwardSetup ==
    /\ pc = "forwarded"
    /\ \E s \in Seeds :
         \E r \in {lstm_backward_setup(rng, outputs, s)} :
             /\ bseed' = s
             /\ value' = r.value
             /\ grad' = r.grad
             /\ rng' = r.rng
             /\ raised' = r.raised
             /\ pc' = IF r.raised = "none" THEN "setup" ELSE "raised"
    /\ UNCHANGED <<draws, name, cfg, bundle, again, outputs, grad_again, grads>>
    /\ UNCHANGED dvars

\* backward_setup called a second time with the same output and seed
BackwardSetupAgain ==
    /\ pc = "setup"
    /\ \E r \in {lstm_backward_setup(rng, outputs, bseed)} :
           /\ grad_again' = r.grad
           /\ rng' = r.rng
    /\ pc' = "setup_again"
    /\ UNCHANGED <<draws, name, cfg, bundle, again, outputs, bseed, value, grad,
                   grads, raised>>
    /\ UNCHANGED dvars

\* backward(*backward_input)
Backward ==
    /\ pc = "setup"
    /\ \E r \in {simple_backward(bundle.params, grads, value, grad)} :
           /\ grads' = r.grads
           /\ raised' = r.raised
           /\ pc' = IF r.raised = "none" THEN "done" ELSE "raised"
    /\ UNCHANGED <<rng, draws, name, cfg, bundle, again, outputs, bseed, value,
                   grad, grad_again>>
    /\ UNCHANGED dvars

\* --------------------------------------- backends/torchdynamo.py
\* the names the module binds at import (lines 4-10)
Imports == {"argparse", "contextlib", "distutils", "List", "torch", "torchdynamo",
            "is_staged_train_test"}

Backends == {"eager", "inductor", "fx2trt"}

\* parse_torchdynamo_args: the namespace it can return
Args ==
    [torchdynamo : Backends, tritonmm : {"none", "triton"},
     dynamic_shapes : BOOLEAN, pt2_debug_log : BOOLEAN, full_graph : BOOLEAN,
     optimize_dynamo_ddp : BOOLEAN, torchinductor_cudagraph : BOOLEAN,
     torchinductor_fallback_random : BOOLEAN,
     dynamo_disable_optimizer_step : BOOLEAN, quantize : BOOLEAN,
     cpp_wrapper : BOOLEAN, is_qat : BOOLEAN, is_dynamic : BOOLEAN]

NoArgs ==
    [torchdynamo |-> "eager", tritonmm |-> "none", dynamic_shapes |-> FALSE,
     pt2_debug_log |-> FALSE, full_graph |-> FALSE, optimize_dynamo_ddp |-> FALSE,
     torchinductor_cudagraph |-> TRUE, torchinductor_fallback_random |-> FALSE,
     dynamo_disable_optimizer_step |-> FALSE, quantize |-> FALSE,
     cpp_wrapper |-> FALSE, is_qat |-> FALSE, is_dynamic |-> FALSE]

\* a model under test: what apply_torchdynamo_args reads and writes of it
Models ==
    [device : Devices, test : {"train", "eval"}, staged : BOOLEAN,
     has_cfg_optimizer_step : BOOLEAN, has_optimizer_step : BOOLEAN,
     disabled : {{}}, wrapped : {{}}, optimizer : {"none"},
     module : {"float"}, calibration : {"none"}, contexts : {0}]

NoModel ==
    [device |-> "cpu", test |-> "eval", staged |-> FALSE,
     has_cfg_optimizer_step |-> FALSE, has_optimizer_step |-> FALSE,
     disabled |-> {}, wrapped |-> {}, optimizer |-> "none",
     module |-> "float", calibration |-> "none", contexts |-> 0]

DefaultInductor ==
    [freezing |-> FALSE, cpp_wrapper |-> FALSE, cudagraphs |-> FALSE,
     mm |-> "aten", fallback_random |-> FALSE]

DInit ==
    /\ dpc = "idle"
    /\ model = NoModel
    /\ args = NoArgs
    /\ precision = "fp32"
    /\ inductor = DefaultInductor
    /\ calls = <<>>
    /\ draised = "none"

\* lines 80-91: the dynamo optimizer and the calls building it makes
dynamo_optimizer(a, prec) ==
    IF a.torchdynamo = "fx2trt" /\ prec = "fp16" THEN "fx2trt_compiler_fp16"
    ELSE a.torchdynamo
optimizer_calls(a, prec) ==
    IF a.torchdynamo = "fx2trt" /\ prec = "fp16" THEN <<"optimize">>
    ELSE <<"optimize">> \o (IF a.pt2_debug_log THEN <<"set_logs">> ELSE <<>>)

\* enable_inductor_quant(model, is_qat, is_dynamic): the module is exported,
\* prepared, calibrated (by model.train() for QAT, else by one run on the
\* example inputs), converted and set on the model
enable_inductor_quant(m, is_qat, is_dynamic) ==
    [m EXCEPT !.module = "converted",
              !.calibration = IF is_qat THEN "train" ELSE "example_inputs"]

\* lines 93-109: the inductor configuration and quantization
inductor_config(cf, m, a) ==
    IF a.torchdynamo # "inductor" THEN cf
    ELSE [freezing |-> TRUE,
          cpp_wrapper |-> a.cpp_wrapper,
          cudagraphs |-> IF m.device = "cuda" THEN a.torchinductor_cudagraph
                         ELSE cf.cudagraphs,
          mm |-> IF a.tritonmm = "triton" THEN "triton" ELSE cf.mm,
          fallback_random |-> a.torchinductor_fallback_random]
inductor_model(m, a) ==
    IF a.torchdynamo = "inductor" /\ m.device = "cpu" /\ m.test = "eval" /\ a.quantize
    THEN enable_inductor_quant(m, a.is_qat, a.is_dynamic)
    ELSE m

\* lines 111-126: disabling dynamo on the optimizer step; an AttributeError
\* on a missing attribute is passed over; warnings.warn needs the name
\* warnings, which raises NameError when the module never bound it
disable_optimizer_step(m, a) ==
    IF ~a.dynamo_disable_optimizer_step
    THEN [model |-> m, calls |-> <<>>, raised |-> "none"]
    ELSE LET found == m.has_cfg_optimizer_step \/ m.has_optimizer_step
             dis == (IF m.has_cfg_optimizer_step THEN {"cfg.optimizer.step"} ELSE {})
                    \cup (IF m.has_optimizer_step THEN {"optimizer.step"} ELSE {})
             cs  == (IF m.has_cfg_optimizer_step THEN <<"disable">> ELSE <<>>)
                    \o (IF m.has_optimizer_step THEN <<"disable">> ELSE <<>>)
         IN  IF found
             THEN [model |-> [m EXCEPT !.disabled = dis], calls |-> cs, raised |-> "none"]
             ELSE IF "warnings" \in Imports
             THEN [model |-> m, calls |-> <<"warn">>, raised |-> "none"]
             ELSE [model |-> m, calls |-> <<>>, raised |-> "NameError"]

\* lines 128-134: the one callable the optimizer wraps
wrap_target(m) ==
    IF m.test = "train" THEN (IF m.staged THEN "forward" ELSE "train") ELSE "model"

\* a benchmark run builds a model
NewModel ==
    /\ dpc = "idle"
    /\ model' \in Models
    /\ dpc' = "ready"
    /\ UNCHANGED <<args, precision, inductor, calls, draised>>
    /\ UNCHANGED fvars

\* apply_torchdynamo_args(model, args, precision)
apply_torchdynamo_args ==
    /\ dpc = "ready"
    /\ \E a \in Args, prec \in {"fp16", "fp32"} :
         LET opt == dynamo_optimizer(a, prec)
             c1  == optimizer_calls(a, prec)
             m1  == inductor_model(model, a)
             d   == disable_optimizer_step(m1, a)
             m2  == [d.model EXCEPT !.wrapped = {wrap_target(d.model)},
                                    !.optimizer = opt]
             m3  == IF a.optimize_dynamo_ddp
                    THEN [m2 EXCEPT !.contexts = m2.contexts + 1] ELSE m2
             c3  == (c1 \o d.calls \o <<"wrap">>)
                    \o (IF a.optimize_dynamo_ddp THEN <<"add_context">> ELSE <<>>)
                    \o <<"reset">>
         IN  /\ args' = a
             /\ precision' = prec
             /\ inductor' = inductor_config(inductor, model, a)
             /\ IF d.raised = "none"
                THEN /\ model' = m3
                     /\ calls' = c3
                     /\ draised' = "none"
                     /\ dpc' = "done"
                ELSE /\ model' = d.model
                     /\ calls' = c1 \o d.calls
                     /\ draised' = d.raised
                     /\ dpc' = "raised"
    /\ UNCHANGED fvars

Init == FInit /\ DInit

Next == Draw \/ Create \/ Recreate \/ Forward \/ BackwardSetup
        \/ BackwardSetupAgain \/ Backward

\* the factory and its driver
Spec == Init /\ [][Next]_vars

DynamoNext == NewModel \/ apply_torchdynamo_args

\* the TorchDynamo glue
SpecDynamo == Init /\ [][DynamoNext]_vars

\* ------------------------------------------------------------ properties
LstmCreators == {"lstm", "lstm_premul", "lstm_simple", "lstm_multilayer"}

\* forward(*inputs) has been called
ForwardRan == pc \in {"forwarded", "setup", "setup_again", "done", "raised"}
\* ... and raised
ForwardRaised == pc = "raised" /\ outputs = <<>>

\* every size of the configuration is positive
ValidConfig(c) ==
    /\ c.seqLength >= 1 /\ c.numLayers >= 1 /\ c.inputSize >= 1
    /\ c.hiddenSize >= 1 /\ c.miniBatch >= 1

\* the hidden-state component of an LSTM forward output: the first of the
\* returned (hy, cy) for the flat variant, the first of the pair in second
\* place for the others
HiddenComponent(n, out) == IF n = "lstm_simple" THEN out[1].items[1] ELSE out[2].items[1]

\* C1: after backward(*backward_setup(forward(*inputs))) every tensor of the
\* bundle's params has a gradient of its own shape, whatever the creator and
\* the layer count.
C1_EveryParamHasGrad ==
    pc = "done" =>
        \A i \in 1..Len(bundle.params) : grads[i] = bundle.params[i].shape

ClaimedArity(n) ==
    CASE n \in {"lstm", "lstm_premul"} -> 6
      [] n = "lstm_simple" -> 7
      [] n = "lstm_multilayer" -> 3
      [] n = "pytorch_lstm" -> 2

\* C3: the bundle's inputs list is as long as the forward callable of the
\* same creator call has positional parameters (6, 6, 7, 3, 2), and each
\* position holds the kind of value the callable expects there.
C3_InputsFitForward ==
    pc # "start" =>
        /\ Len(bundle.inputs) = Len(Signature(bundle.forward.fn))
        /\ Len(bundle.inputs) = ClaimedArity(name)
        /\ Kinds(bundle.inputs) = Signature(bundle.forward.fn)

C3_Witness ==
    /\ pc = "forwarded" /\ name = "lstm_simple" /\ Len(bundle.inputs) = 7
    /\ cfg.numLayers = 2

\* C4: with a seed given (0 included), a second creator call with the same
\* arguments returns the same inputs and the same params, whatever was drawn
\* from the generators in between.
C4_SeededSynthesisRepeats ==
    (again.made /\ cfg.seed # NoSeed) =>
        /\ again.inputs = bundle.inputs
        /\ again.params = bundle.params

C4_Witness ==
    /\ again.made /\ cfg.seed = SomeSeed(0) /\ draws > 0
    /\ cfg.miniBatch > 0 /\ cfg.seqLength > 0 /\ cfg.device = "cuda"
    /\ again.inputs = bundle.inputs

\* C5: a creator call with a non-positive batch size, layer count or feature
\* size raises InvalidConfiguration, returns no bundle and leaves the
\* generators as they were.
C5_InvalidConfigurationRaised ==
    [][(pc = "start" /\ pc' # "start" /\ ~(/\ cfg'.numLayers >= 1 /\ cfg'.inputSize >= 1
                                          /\ cfg'.hiddenSize >= 1 /\ cfg'.miniBatch >= 1)) =>
          (raised' = "InvalidConfiguration" /\ bundle' = NoDef /\ rng' = rng)]_fvars

\* C6 as claimed: backward_setup's value is the hidden-state component of
\* the forward output, and the gradient seed has the shape of the value.
C6_ValueIsHiddenState ==
    (pc = "setup" /\ name \in LstmCreators) =>
        /\ value = HiddenComponent(name, outputs)
        /\ grad.shape = value.shape

\* C6 amended: backward_setup's value is the first component of the forward
\* output, which is the per-step output sequence of shape (seqLength,
\* miniBatch, hiddenSize) for the standard, premultiplied and multilayer
\* variants and the final hidden state for the flat variant; the (hy, cy) pair
\* respectively cy is discarded; the gradient seed has the shape of the value.
C6_ValueIsFirstComponent ==
    (pc = "setup" /\ name \in LstmCreators) =>
        /\ value = outputs[1].items[1]
        /\ grad.shape = value.shape
        /\ name = "lstm_simple" => value = HiddenComponent(name, outputs)
        /\ name # "lstm_simple" =>
              value.shape = <<cfg.seqLength, cfg.miniBatch, cfg.hiddenSize>>

C6_Witness ==
    /\ pc = "setup" /\ name = "lstm" /\ cfg.seqLength = 2 /\ cfg.miniBatch = 2
    /\ value.shape = <<2, 2, cfg.hiddenSize>>
    /\ value # HiddenComponent(name, outputs)

\* C9: with a seed passed to backward_setup (0 included), a second call with
\* the same output and seed returns the same gradient seed.
C9_SeededGradRepeats ==
    (pc = "setup_again" /\ bseed # NoSeed) => grad_again = grad

\* the tensors the creator synthesized, read back from the bundle of a
\* standard, premultiplied or multilayer creator
SynthInput == bundle.inputs[1].items[1]
SynthHidden == bundle.inputs[2].items
SynthParams == bundle.params

\* the four forward variants on those same tensors
AsStandard == lstm_factory(SynthInput, SynthHidden, SynthParams[1], SynthParams[2],
                           SynthParams[3], SynthParams[4])
AsPremul == lstm_factory_premul(SynthInput, SynthHidden, SynthParams[1], SynthParams[2],
                                SynthParams[3], SynthParams[4])
AsFlat == lstm_factory_simple(SynthInput, index(SynthHidden[1], 0), index(SynthHidden[2], 0),
                              SynthParams[1], SynthParams[2], SynthParams[3], SynthParams[4])
AsMultilayer == lstm_factory_multilayer(SynthInput, SynthHidden, SynthParams)

\* the flat variant's (hy, cy) equals the final state in out
SameFinalState(flat, out) ==
    /\ unsqueeze(flat[1].items[1]) = out[2].items[1]
    /\ unsqueeze(flat[2].items[1]) = out[2].items[2]

\* forward returned for a bundle whose tensors can be handed to every variant
Comparable ==
    /\ pc = "forwarded" /\ name \in {"lstm", "lstm_premul", "lstm_multilayer"}
    /\ cfg.seqLength >= 1

\* C7 as claimed: on the same input, initial state and parameter values the
\* four variants return the same final (hidden, cell) state and the same
\* per-step outputs, for every numLayers >= 1 and seqLength >= 1.
C7_VariantsAgree ==
    Comparable =>
        /\ outputs = AsStandard
        /\ outputs = AsPremul
        /\ outputs = AsMultilayer
        /\ SameFinalState(AsFlat, outputs)

\* C7 amended: the standard, premultiplied and flat variants agree for every
\* numLayers >= 1 and seqLength >= 1 (they run layer 0 only), and the
\* multilayer variant agrees with them when numLayers = 1.
C7_VariantsAgreeSingleLayer ==
    Comparable =>
        /\ name # "lstm_multilayer" =>
              /\ outputs = AsStandard
              /\ outputs = AsPremul
              /\ SameFinalState(AsFlat, outputs)
        /\ cfg.numLayers = 1 =>
              /\ outputs = AsStandard
              /\ outputs = AsPremul
              /\ outputs = AsMultilayer
              /\ SameFinalState(AsFlat, outputs)

C7_Witness ==
    /\ Comparable /\ name = "lstm_multilayer" /\ cfg.numLayers = 1
    /\ cfg.seqLength = 2 /\ cfg.miniBatch = 2 /\ cfg.inputSize # cfg.hiddenSize
    /\ outputs = AsPremul
    /\ SameFinalState(AsFlat, outputs)

\* the (hy, cy) of layer k after t time steps, by the recurrence: layer k
\* starts from hx[k], cx[k], uses params[4k..4k+3], and at step t reads x[t]
\* (k = 0) or the step-t output of layer k-1
RECURSIVE LayerState(_, _, _, _, _)
LayerState(x, hidden, params, k, t) ==
    IF t = 0 THEN [hy |-> index(hidden[1], k), cy |-> index(hidden[2], k)]
    ELSE LET prev == LayerState(x, hidden, params, k, t - 1)
             inp  == IF k = 0 THEN index(x, t - 1)
                     ELSE LayerState(x, hidden, params, k - 1, t).hy
         IN  lstm_cell(inp, <<prev.hy, prev.cy>>,
                       params[4 * k + 1], params[4 * k + 2],
                       params[4 * k + 3], params[4 * k + 4])

\* C8: the multilayer variant runs layers 0..L-1 in order; layer k reads
\* params[4k..4k+3], starts from hx[k], cx[k] and takes the per-step outputs
\* of layer k-1 as its inputs; the returned output is the per-step output of
\* layer L-1 and the returned state is the state of layer L-1 after the last
\* step.
C8_MultilayerRecurrence ==
    (pc = "forwarded" /\ name = "lstm_multilayer" /\ cfg.seqLength >= 1) =>
        LET L == cfg.numLayers
            T == cfg.seqLength
            last(t) == LayerState(SynthInput, SynthHidden, SynthParams, L - 1, t)
        IN  /\ outputs[1].items[1] = stack([t \in 1..T |-> last(t).hy])
            /\ outputs[2].items = <<unsqueeze(last(T).hy), unsqueeze(last(T).cy)>>
            /\ outputs[1].items[1].deps = 1..(4 * L)

C8_Witness ==
    /\ pc = "forwarded" /\ name = "lstm_multilayer" /\ cfg.numLayers = 2
    /\ cfg.seqLength = 2 /\ cfg.miniBatch = 2 /\ cfg.inputSize # cfg.hiddenSize
    /\ outputs[1].items[1].deps = 1..8

\* C10: when --dynamo_disable_optimizer_step is set and the model has
\* neither model.cfg.optimizer.step nor model.optimizer.step,
\* apply_torchdynamo_args warns and carries on: it raises nothing, wraps
\* exactly the one target of the test with the dynamo optimizer and calls
\* torchdynamo.reset() last.
C10_WarnsAndContinues ==
    (/\ dpc \in {"done", "raised"}
     /\ args.dynamo_disable_optimizer_step
     /\ ~model.has_cfg_optimizer_step /\ ~model.has_optimizer_step) =>
        /\ draised = "none"
        /\ \E i \in 1..Len(calls) : calls[i] = "warn"
        /\ model.wrapped = {wrap_target(model)}
        /\ calls # <<>> /\ calls[Len(calls)] = "reset"

====
